---- MODULE Spec2Model ----
(***************************************************************************)
(* Model of the time-fractional Black-Scholes FX option solver             *)
(* (fx_option_pricing_fractional_pdes/src/fractional_pde.rs) and of the    *)
(* command-line entry point that calls it (main.rs).                       *)
(*                                                                         *)
(* Numbers.  An f64 is modelled as a record [t, x]: t = "fin" with x the   *)
(* value in fixed point (x / ONE), or one of the IEEE specials "pinf",     *)
(* "ninf", "nan".  Rounding is toward minus infinity at the resolution     *)
(* 1/ONE.  ln and exp use the piecewise-linear interpolation between the   *)
(* powers of two (base two, so the log axis is in octaves): they are       *)
(* strictly increasing and inverse to each other up to rounding, which is  *)
(* all the solver relies on.                                               *)
(***************************************************************************)
EXTENDS Integers, Sequences, FiniteSets, TLC

\* ---------------------------------------------------------------- bounds
MaxM == 3
MaxN == 3

\* ------------------------------------------------------------ f64 values
ONE == 100

Fin(x) == [t |-> "fin", x |-> x]
NaN == [t |-> "nan", x |-> 0]
PInf == [t |-> "pinf", x |-> 0]
NInf == [t |-> "ninf", x |-> 0]
Zero == Fin(0)
One == Fin(ONE)

IsInf(a) == a.t \in {"pinf", "ninf"}

\* sign of a non-NaN value; zero counts as positive (no negative zero)
Sgn(a) ==
  IF a.t = "ninf" \/ (a.t = "fin" /\ a.x < 0) THEN -1 ELSE 1

SignedInf(s) == IF s < 0 THEN NInf ELSE PInf

\* floor division for either sign of the divisor (b # 0)
IDiv(a, b) == IF b > 0 THEN a \div b ELSE (-a) \div (-b)

\* Rust evaluates an operand once and passes its value: each operation
\* below applies op to the values x, y of its operands.
FNeg(a) ==
  LET op(x) ==
      CASE x.t = "fin" -> Fin(-x.x)
        [] x.t = "pinf" -> NInf
        [] x.t = "ninf" -> PInf
        [] OTHER -> NaN
  IN CHOOSE r \in {op(x) : x \in {a}} : TRUE

FAdd(a, b) ==
  LET op(x, y) ==
      CASE x.t = "nan" \/ y.t = "nan" -> NaN
        [] IsInf(x) /\ IsInf(y) -> IF x.t = y.t THEN x ELSE NaN
        [] IsInf(x) -> x
        [] IsInf(y) -> y
        [] OTHER -> Fin(x.x + y.x)
  IN CHOOSE r \in {op(x, y) : x \in {a}, y \in {b}} : TRUE

FSub(a, b) == FAdd(a, FNeg(b))

FMul(a, b) ==
  LET op(x, y) ==
      CASE x.t = "nan" \/ y.t = "nan" -> NaN
        [] IsInf(x) /\ y = Zero -> NaN
        [] IsInf(y) /\ x = Zero -> NaN
        [] IsInf(x) \/ IsInf(y) -> SignedInf(Sgn(x) * Sgn(y))
        [] OTHER -> Fin((x.x * y.x) \div ONE)
  IN CHOOSE r \in {op(x, y) : x \in {a}, y \in {b}} : TRUE

FDiv(a, b) ==
  LET op(x, y) ==
      CASE x.t = "nan" \/ y.t = "nan" -> NaN
        [] IsInf(x) /\ IsInf(y) -> NaN
        [] IsInf(x) -> SignedInf(Sgn(x) * Sgn(y))
        [] IsInf(y) -> Zero
        [] y.x = 0 -> IF x.x = 0 THEN NaN ELSE SignedInf(Sgn(x))
        [] OTHER -> Fin(IDiv(x.x * ONE, y.x))
  IN CHOOSE r \in {op(x, y) : x \in {a}, y \in {b}} : TRUE

\* f64::max: a NaN operand is ignored
FMax(a, b) ==
  LET op(x, y) ==
      CASE x.t = "nan" -> y
        [] y.t = "nan" -> x
        [] x.t = "pinf" \/ y.t = "ninf" -> x
        [] y.t = "pinf" \/ x.t = "ninf" -> y
        [] OTHER -> IF x.x >= y.x THEN x ELSE y
  IN CHOOSE r \in {op(x, y) : x \in {a}, y \in {b}} : TRUE

\* a >= b on f64: false when either side is NaN
FGe(a, b) ==
  CASE a.t = "nan" \/ b.t = "nan" -> FALSE
    [] a.t = "pinf" \/ b.t = "ninf" -> TRUE
    [] b.t = "pinf" \/ a.t = "ninf" -> FALSE
    [] OTHER -> a.x >= b.x

\* usize as f64
FromInt(k) == Fin(k * ONE)

RECURSIVE Pow2(_)
Pow2(q) == IF q <= 0 THEN 1 ELSE 2 * Pow2(q - 1)

RECURSIVE LnUp(_, _)
LnUp(x, q) ==
  IF x < 2 * ONE * Pow2(q) THEN q * ONE + (x \div Pow2(q)) - ONE
  ELSE LnUp(x, q + 1)

RECURSIVE LnDown(_, _)
LnDown(x, p) ==
  IF x * Pow2(p) >= ONE THEN x * Pow2(p) - ONE - p * ONE
  ELSE LnDown(x, p + 1)

\* f64::ln
FLn(a) ==
  LET op(x) ==
      CASE x.t = "nan" \/ x.t = "ninf" -> NaN
        [] x.t = "pinf" -> PInf
        [] x.x < 0 -> NaN
        [] x.x = 0 -> NInf
        [] x.x >= ONE -> Fin(LnUp(x.x, 0))
        [] OTHER -> Fin(LnDown(x.x, 1))
  IN CHOOSE r \in {op(x) : x \in {a}} : TRUE

\* f64::exp
FExp(a) ==
  LET op(x) ==
      CASE x.t = "nan" -> NaN
        [] x.t = "pinf" -> PInf
        [] x.t = "ninf" -> Zero
        [] x.x >= 0 -> Fin((ONE + (x.x % ONE)) * Pow2(x.x \div ONE))
        [] OTHER -> Fin((ONE + (x.x % ONE)) \div Pow2(-(x.x \div ONE)))
  IN CHOOSE r \in {op(x) : x \in {a}} : TRUE

IsOddInt(p) == p.x % ONE = 0 /\ (p.x \div ONE) % 2 = 1

\* f64::powf(a, p) for a finite exponent p
FPowf(a, p) ==
  LET op(x, y) ==
      CASE y.t # "fin" -> NaN
        [] y.x = 0 -> One
        [] x.t = "nan" -> NaN
        [] x = One -> One
        [] x.t = "pinf" -> IF y.x > 0 THEN PInf ELSE Zero
        [] x.t = "ninf" ->
             IF y.x < 0 THEN Zero ELSE IF IsOddInt(y) THEN NInf ELSE PInf
        [] x.x = 0 -> IF y.x > 0 THEN Zero ELSE PInf
        [] x.x < 0 ->
             IF y.x % ONE # 0 THEN NaN
             ELSE IF IsOddInt(y) THEN FNeg(FExp(FMul(y, FLn(FNeg(x)))))
             ELSE FExp(FMul(y, FLn(FNeg(x))))
        [] OTHER -> FExp(FMul(y, FLn(x)))
  IN CHOOSE r \in {op(x, y) : x \in {a}, y \in {p}} : TRUE

\* statrs gamma, tabulated on the arguments 2 - alpha the inputs produce:
\* Gamma(2) = Gamma(1) = 1, Gamma(1.5) = 0.886, Gamma(1.15) = 0.933,
\* Gamma(0.5) = 1.772
GammaFn(a) ==
  CASE a = Fin(200) -> Fin(100)
    [] a = Fin(150) -> Fin(89)
    [] a = Fin(115) -> Fin(93)
    [] a = Fin(100) -> Fin(100)
    [] a = Fin(50) -> Fin(177)
    [] OTHER -> NaN

\* ------------------------------------------------------ inputs of a run
Alphas == {Fin(0), Fin(50), Fin(85), Fin(100), Fin(150)}
SMaxs == {Fin(2000), Fin(11)}
Sigmas == {Fin(200), Fin(0)}

\* FxOptionParams; k, t, rd, rf as in main's configuration (1.10, 1.0,
\* 0.04, 0.02)
ParamSets ==
  [s_max : SMaxs, k : {Fin(110)}, t : {Fin(100)}, rd : {Fin(4)},
   rf : {Fin(2)}, sigma : Sigmas, alpha : Alphas]

\* the literal 1.10 main compares the grid against
Target == Fin(110)

VARIABLES
  params, m, n,        \* arguments of solve_fx_tfbs_final_stable
  pc,                  \* position in main / the solver
  outcome,             \* "running", "ok" or "panic"
  x_min, x_max, dx, dt, s_grid, sigma2, drift, d, b,      \* lines 10-24
  v,                   \* solution matrix, keyed by <<i, column>>
  alpha_coeff, beta_coeff, gamma_coeff,                   \* lines 30-32
  main_diag, upper_val, lower_val,                        \* lines 34-36
  a_matrix, lu,        \* the operator and its factorization
  step, i,             \* loop indices of the time loop and the node loop
  t_curr, v_upper,     \* locals of one time step
  rhs, sol,            \* right-hand side and solution of one time step
  result,              \* returned (s_grid, prices)
  printed,             \* what main printed
  calls,               \* history: calls of the solver
  factorizations,      \* history: calls of partial_piv_lu
  solves,              \* history: calls of lu.solve
  stepLog,             \* history: step indices in the order they began
  reads,               \* history: cells of v read during the current step
  writes               \* history: number of assignments per cell of v

args == <<params, m, n>>
lets == <<x_min, x_max, dx, dt, s_grid, sigma2, drift, d, b>>
coeffs ==
  <<alpha_coeff, beta_coeff, gamma_coeff, main_diag, upper_val, lower_val>>
operator == <<a_matrix, lu>>
locals == <<i, t_curr, v_upper, rhs, sol>>

vars ==
  <<args, pc, outcome, lets, v, coeffs, operator, step, locals, result,
    printed, calls, factorizations, solves, stepLog, reads, writes>>

\* the (m-1) x (m-1) tridiagonal matrix of lines 38-43
TriDiag(size, main, upper, lower) ==
  [c \in (0..(size - 1)) \X (0..(size - 1)) |->
     IF c[1] = c[2] THEN main
     ELSE IF c[2] = c[1] - 1 THEN lower
     ELSE IF c[2] = c[1] + 1 THEN upper
     ELSE Zero]

\* partial_piv_lu of the tridiagonal a: unit lower factor l, pivots u
Factorize(a, size) ==
  LET u[j \in 0..(size - 1)] ==
        IF j = 0 THEN a[<<0, 0>>]
        ELSE FSub(a[<<j, j>>],
                  FMul(FDiv(a[<<j, j - 1>>], u[j - 1]), a[<<j - 1, j>>]))
      l == [j \in 0..(size - 1) |->
              IF j = 0 THEN Zero ELSE FDiv(a[<<j, j - 1>>], u[j - 1])]
  IN [built |-> TRUE, size |-> size, l |-> l, u |-> u,
      up |-> [j \in 0..(size - 2) |-> a[<<j, j + 1>>]]]

NoLu == [built |-> FALSE]

\* lu.solve(rhs): forward substitution with l, back substitution with u
LuSolve(f, r) ==
  LET y[j \in 0..(f.size - 1)] ==
        IF j = 0 THEN r[0] ELSE FSub(r[j], FMul(f.l[j], y[j - 1]))
      RECURSIVE Back(_)
      Back(j) ==
        IF j = f.size - 1 THEN FDiv(y[j], f.u[j])
        ELSE FDiv(FSub(y[j], FMul(f.up[j], Back(j + 1))), f.u[j])
  IN [j \in 0..(f.size - 1) |-> Back(j)]

\* V_upper at time t (line 50)
VUpperAt(t) ==
  FSub(FMul(params.s_max, FExp(FMul(FNeg(params.rf), t))),
       FMul(params.k, FExp(FMul(FNeg(params.rd), t))))

\* mutant: the history term reads one column too far to the right
HistCol_next(s, k) == s - k + 1

\* column of v the k-th history term of step s reads
HistCol(s, k) == s - k

\* the k loop of lines 56-58
RECURSIVE HistoryLoop(_, _, _, _)
HistoryLoop(node, s, k, acc) ==
  IF k >= s THEN acc
  ELSE HistoryLoop(node, s, k + 1,
         FAdd(acc, FMul(FSub(b[k - 1], b[k]), v[<<node, HistCol(s, k)>>])))

\* history of lines 54-60
History(node, s) ==
  FAdd(HistoryLoop(node, s, 1, Zero), FMul(b[s - 1], v[<<node, 0>>]))

\* cells of v that History(node, s) reads
HistoryReads(node, s) ==
  {<<node, HistCol(s, k)>> : k \in 1..(s - 1)} \cup {<<node, 0>>}

\* mutant: rposition instead of position
Position_last(s) ==
  LET hits == {j \in DOMAIN s : FGe(s[j], Target)}
  IN IF hits = {} THEN -1
     ELSE CHOOSE j \in hits : \A h \in hits : j >= h

\* s.iter().position(|&x| x >= 1.10)
Position(s) ==
  LET hits == {j \in DOMAIN s : FGe(s[j], Target)}
  IN IF hits = {} THEN -1
     ELSE CHOOSE j \in hits : \A h \in hits : j <= h

Bump(w, cells) == [c \in DOMAIN w |-> IF c \in cells THEN w[c] + 1 ELSE w[c]]

Empty == [c \in {} |-> Zero]

\* ------------------------------------------------------------------ Init
Init ==
  /\ params \in ParamSets
  /\ m \in 0..MaxM
  /\ n \in 0..MaxN
  /\ pc = "main"
  /\ outcome = "running"
  /\ x_min = Zero /\ x_max = Zero /\ dx = Zero /\ dt = Zero
  /\ s_grid = Empty
  /\ sigma2 = Zero /\ drift = Zero /\ d = Zero
  /\ b = Empty
  /\ v = Empty
  /\ alpha_coeff = Zero /\ beta_coeff = Zero /\ gamma_coeff = Zero
  /\ main_diag = Zero /\ upper_val = Zero /\ lower_val = Zero
  /\ a_matrix = Empty
  /\ lu = NoLu
  /\ step = 0
  /\ i = 0
  /\ t_curr = Zero
  /\ v_upper = Zero
  /\ rhs = Empty
  /\ sol = Empty
  /\ result = <<>>
  /\ printed = <<>>
  /\ calls = 0
  /\ factorizations = 0
  /\ solves = 0
  /\ stepLog = <<>>
  /\ reads = {}
  /\ writes = [c \in {} |-> 0]

\* --------------------------------------------------------------- actions
\* main.rs line 40: main calls the solver
MainCall ==
  /\ pc = "main"
  /\ calls' = calls + 1
  /\ pc' = "setup"
  /\ UNCHANGED <<args, outcome, lets, v, coeffs, operator, step, locals,
                 result, printed, factorizations, solves, stepLog, reads,
                 writes>>

\* lines 10-24: grid, PDE constants, scale factor d and weights b
Setup ==
  /\ pc = "setup"
  /\ x_min' = FLn(FDiv(params.k, FromInt(10)))
  /\ x_max' = FLn(params.s_max)
  /\ dx' = FDiv(FSub(x_max', x_min'), FromInt(m))
  /\ dt' = FDiv(params.t, FromInt(n))
  /\ s_grid' = [j \in 0..m |-> FExp(FAdd(x_min', FMul(FromInt(j), dx')))]
  /\ sigma2' = FMul(params.sigma, params.sigma)
  /\ drift' = FSub(FSub(params.rd, params.rf), FMul(Fin(ONE \div 2), sigma2'))
  /\ d' = FMul(FPowf(dt', params.alpha),
               GammaFn(FSub(FromInt(2), params.alpha)))
  /\ b' = [j \in 0..n |->
             FSub(FPowf(FromInt(j + 1), FSub(One, params.alpha)),
                  FPowf(FromInt(j), FSub(One, params.alpha)))]
  /\ pc' = "alloc"
  /\ UNCHANGED <<args, outcome, v, coeffs, operator, step, locals, result,
                 printed, calls, factorizations, solves, stepLog, reads,
                 writes>>

\* line 26: Mat::zeros(m + 1, n + 1)
AllocV ==
  /\ pc = "alloc"
  /\ v' = [c \in (0..m) \X (0..n) |-> Zero]
  /\ writes' = [c \in (0..m) \X (0..n) |-> 0]
  /\ pc' = "payoff"
  /\ UNCHANGED <<args, outcome, lets, coeffs, operator, step, locals, result,
                 printed, calls, factorizations, solves, stepLog, reads>>

\* line 27: terminal payoff into column 0
Payoff ==
  /\ pc = "payoff"
  /\ v' = [c \in DOMAIN v |->
             IF c[2] = 0 THEN FMax(FSub(s_grid[c[1]], params.k), Zero)
             ELSE v[c]]
  /\ writes' = Bump(writes, {<<j, 0>> : j \in 0..m})
  /\ pc' = "coeffs"
  /\ UNCHANGED <<args, outcome, lets, coeffs, operator, step, locals, result,
                 printed, calls, factorizations, solves, stepLog, reads>>

\* lines 30-36: discretization coefficients and the operator's entries
Coeffs ==
  /\ pc = "coeffs"
  /\ alpha_coeff' = FMul(d, FDiv(sigma2, FMul(FromInt(2), FMul(dx, dx))))
  /\ beta_coeff' = FMul(d, FDiv(drift, FMul(FromInt(2), dx)))
  /\ gamma_coeff' = FMul(d, params.rd)
  /\ main_diag' =
       FAdd(FAdd(One, FMul(FromInt(2), alpha_coeff')), gamma_coeff')
  /\ upper_val' = FNeg(FAdd(alpha_coeff', beta_coeff'))
  /\ lower_val' = FNeg(FSub(alpha_coeff', beta_coeff'))
  /\ pc' = "assemble"
  /\ UNCHANGED <<args, outcome, lets, v, operator, step, locals, result,
                 printed, calls, factorizations, solves, stepLog, reads,
                 writes>>

\* lines 38-44: assemble a_matrix and factorize it.  m - 1 on a usize m = 0
\* panics (overflow check) or wraps to an allocation that cannot succeed.
Assemble ==
  /\ pc = "assemble"
  /\ IF m = 0
     THEN /\ pc' = "panicked"
          /\ outcome' = "panic"
          /\ UNCHANGED <<operator, factorizations, step>>
     ELSE /\ a_matrix' = TriDiag(m - 1, main_diag, upper_val, lower_val)
          /\ lu' = Factorize(a_matrix', m - 1)
          /\ factorizations' = factorizations + 1
          /\ step' = 1
          /\ pc' = "step"
          /\ UNCHANGED outcome
  /\ UNCHANGED <<args, lets, v, coeffs, locals, result, printed, calls,
                 solves, stepLog, reads, writes>>

\* lines 47-50: head of the time loop and the step's locals
StepBegin ==
  /\ pc = "step"
  /\ step <= n
  /\ rhs' = [j \in 0..(m - 2) |-> Zero]
  /\ t_curr' = FMul(FromInt(step), dt)
  /\ v_upper' = VUpperAt(t_curr')
  /\ i' = 1
  /\ stepLog' = Append(stepLog, step)
  /\ reads' = {}
  /\ pc' = "rhs"
  /\ UNCHANGED <<args, outcome, lets, v, coeffs, operator, step, sol, result,
                 printed, calls, factorizations, solves, writes>>

\* lines 52-62: one iteration of the node loop
RhsNode ==
  /\ pc = "rhs"
  /\ i < m
  /\ rhs' = [rhs EXCEPT ![i - 1] = History(i, step)]
  /\ reads' = reads \cup HistoryReads(i, step)
  /\ i' = i + 1
  /\ UNCHANGED <<args, pc, outcome, lets, v, coeffs, operator, step, t_curr,
                 v_upper, sol, result, printed, calls, factorizations, solves,
                 stepLog, writes>>

\* mutant: the boundary term goes into the first equation
Inject_first ==
  /\ pc = "rhs"
  /\ i >= m
  /\ IF m < 2
     THEN /\ pc' = "panicked"
          /\ outcome' = "panic"
          /\ UNCHANGED rhs
     ELSE /\ rhs' = [rhs EXCEPT ![0] = FSub(@, FMul(upper_val, v_upper))]
          /\ pc' = "solve"
          /\ UNCHANGED outcome
  /\ UNCHANGED <<args, lets, v, coeffs, operator, step, i, t_curr, v_upper,
                 sol, result, printed, calls, factorizations, solves, stepLog,
                 reads, writes>>

\* line 65: boundary term into the last equation.  With m = 1 the index
\* m - 2 underflows: a panic (overflow check, or index out of bounds).
Inject ==
  /\ pc = "rhs"
  /\ i >= m
  /\ IF m < 2
     THEN /\ pc' = "panicked"
          /\ outcome' = "panic"
          /\ UNCHANGED rhs
     ELSE /\ rhs' = [rhs EXCEPT ![m - 2] = FSub(@, FMul(upper_val, v_upper))]
          /\ pc' = "solve"
          /\ UNCHANGED outcome
  /\ UNCHANGED <<args, lets, v, coeffs, operator, step, i, t_curr, v_upper,
                 sol, result, printed, calls, factorizations, solves, stepLog,
                 reads, writes>>

\* mutant: the operator is factorized again inside the time loop
Solve_refactor ==
  /\ pc = "solve"
  /\ lu' = Factorize(a_matrix, m - 1)
  /\ factorizations' = factorizations + 1
  /\ sol' = LuSolve(lu', rhs)
  /\ solves' = solves + 1
  /\ pc' = "write"
  /\ UNCHANGED <<args, outcome, lets, v, coeffs, a_matrix, step, i, t_curr,
                 v_upper, rhs, result, printed, calls, stepLog, reads, writes>>

\* line 67: lu.solve(&rhs)
Solve ==
  /\ pc = "solve"
  /\ sol' = LuSolve(lu, rhs)
  /\ solves' = solves + 1
  /\ pc' = "write"
  /\ UNCHANGED <<args, outcome, lets, v, coeffs, operator, step, i, t_curr,
                 v_upper, rhs, result, printed, calls, factorizations,
                 stepLog, reads, writes>>

\* mutant: the solved column lands one column to the left
WriteInterior_prev ==
  /\ pc = "write"
  /\ v' = [c \in DOMAIN v |->
             IF c[2] = step - 1 /\ c[1] \in 1..(m - 1) THEN sol[c[1] - 1]
             ELSE v[c]]
  /\ writes' = Bump(writes, {<<j, step - 1>> : j \in 1..(m - 1)})
  /\ pc' = "boundary"
  /\ UNCHANGED <<args, outcome, lets, coeffs, operator, step, locals, result,
                 printed, calls, factorizations, solves, stepLog, reads>>

\* line 68: interior values of column step
WriteInterior ==
  /\ pc = "write"
  /\ v' = [c \in DOMAIN v |->
             IF c[2] = step /\ c[1] \in 1..(m - 1) THEN sol[c[1] - 1]
             ELSE v[c]]
  /\ writes' = Bump(writes, {<<j, step>> : j \in 1..(m - 1)})
  /\ pc' = "boundary"
  /\ UNCHANGED <<args, outcome, lets, coeffs, operator, step, locals, result,
                 printed, calls, factorizations, solves, stepLog, reads>>

\* mutant: the two boundary values are exchanged
WriteBoundary_swapped ==
  /\ pc = "boundary"
  /\ v' = [v EXCEPT ![<<m, step>>] = Zero, ![<<0, step>>] = v_upper]
  /\ writes' = Bump(writes, {<<0, step>>, <<m, step>>})
  /\ step' = step + 1
  /\ pc' = "step"
  /\ UNCHANGED <<args, outcome, lets, coeffs, operator, locals, result,
                 printed, calls, factorizations, solves, stepLog, reads>>

\* mutant: the time loop advances by two
WriteBoundary_skip ==
  /\ pc = "boundary"
  /\ v' = [v EXCEPT ![<<0, step>>] = Zero, ![<<m, step>>] = v_upper]
  /\ writes' = Bump(writes, {<<0, step>>, <<m, step>>})
  /\ step' = step + 2
  /\ pc' = "step"
  /\ UNCHANGED <<args, outcome, lets, coeffs, operator, locals, result,
                 printed, calls, factorizations, solves, stepLog, reads>>

\* lines 70-71: the two boundary values, then the next step
WriteBoundary ==
  /\ pc = "boundary"
  /\ v' = [v EXCEPT ![<<0, step>>] = Zero, ![<<m, step>>] = v_upper]
  /\ writes' = Bump(writes, {<<0, step>>, <<m, step>>})
  /\ step' = step + 1
  /\ pc' = "step"
  /\ UNCHANGED <<args, outcome, lets, coeffs, operator, locals, result,
                 printed, calls, factorizations, solves, stepLog, reads>>

\* line 74: the loop is over; return the grid and column n
Return ==
  /\ pc = "step"
  /\ step > n
  /\ result' = <<[grid |-> s_grid, prices |-> [j \in 0..m |-> v[<<j, n>>]]]>>
  /\ outcome' = "ok"
  /\ pc' = "select"
  /\ UNCHANGED <<args, lets, v, coeffs, operator, step, locals, printed,
                 calls, factorizations, solves, stepLog, reads, writes>>

\* main.rs lines 41-43: pick a grid point and print it
MainSelect ==
  /\ pc = "select"
  /\ LET s == result[1].grid
         prices == result[1].prices
         pos == Position(s)
     IN printed' =
          IF pos = -1 THEN <<>>
          ELSE <<[pos |-> pos, spot |-> s[pos], price |-> prices[pos]]>>
  /\ pc' = "exit"
  /\ UNCHANGED <<args, outcome, lets, v, coeffs, operator, step, locals,
                 result, calls, factorizations, solves, stepLog, reads,
                 writes>>

Next ==
  \/ MainCall
  \/ Setup
  \/ AllocV
  \/ Payoff
  \/ Coeffs
  \/ Assemble
  \/ StepBegin
  \/ RhsNode
  \/ Inject
  \/ Solve
  \/ WriteInterior
  \/ WriteBoundary
  \/ Return
  \/ MainSelect

Spec == Init /\ [][Next]_vars

\* the program is sequential: an enabled step is eventually taken
FairSpec == Spec /\ WF_vars(Next)

\* ================================================================ claims
Allocated == DOMAIN v # {}
Ended == pc \in {"select", "exit", "panicked"}
Returned == result # <<>>
IsFinite(a) == a.t = "fin"
FinitePositive(a) == a.t = "fin" /\ a.x > 0

\* the inputs section 7 of the specification accepts
ValidParams ==
  /\ params.alpha.t = "fin" /\ 0 < params.alpha.x /\ params.alpha.x < ONE
  /\ FinitePositive(params.s_max)
  /\ FinitePositive(params.k)
  /\ FinitePositive(params.t)
  /\ FinitePositive(params.sigma)
ValidGrid == m >= 2 /\ n >= 2

\* C1: whenever M < 2 or N < 2 (the parameters being valid), the call ends with the error
\* InvalidGridSize, raised before the solution matrix is allocated and
\* before any time step runs, and nothing is returned.
C1_DegenerateGridRejected ==
  (ValidParams /\ (m < 2 \/ n < 2)) =>
    /\ ~Allocated
    /\ stepLog = <<>>
    /\ ~Returned
    /\ Ended => outcome = "InvalidGridSize"

\* C2: whenever alpha is outside (0,1), or S_max, K, T or sigma is not
\* positive (the grid sizes being valid), the call ends with the error InvalidParameter, raised before
\* the solution matrix is allocated; no history weight is used and nothing
\* is returned.
C2_InvalidParameterRejected ==
  (ValidGrid /\ ~ValidParams) =>
    /\ ~Allocated
    /\ stepLog = <<>>
    /\ ~Returned
    /\ Ended => outcome = "InvalidParameter"

NonFiniteColumn(k) == \E j \in 0..m : ~IsFinite(v[<<j, k>>])

\* C3: in a run on inputs that pass validation, a column with a non-finite
\* value stops the march at its step (no later step runs, the outcome is
\* NumericalInstability), and whenever a price column is returned every
\* column 0..N was fully written and holds finite values only.
C3_NoInvalidResults ==
  (ValidParams /\ ValidGrid) =>
    /\ \A k \in 1..n :
         (Allocated /\ NonFiniteColumn(k)) =>
           /\ step <= k
           /\ Ended => outcome = "NumericalInstability"
    /\ Returned =>
         \A c \in DOMAIN v : writes[c] >= 1 /\ IsFinite(v[c])

\* C4: once step k has completed, and in every later state, V[0,k] = 0 and
\* V[M,k] = S_max e^{-r_f t_k} - K e^{-r_d t_k} with t_k = k dt.
C4_BoundaryInvariant ==
  \A k \in 1..n :
    (Allocated /\ k < step) =>
      /\ v[<<0, k>>] = Zero
      /\ v[<<m, k>>] = VUpperAt(FMul(FromInt(k), dt))

C4_Witness ==
  /\ pc = "exit"
  /\ m >= 2
  /\ step = n + 1
  /\ n >= 2
  /\ IsFinite(v[<<m, 1>>])
  /\ v[<<m, 1>>] # v[<<m, 2>>]
  /\ v[<<m, 1>>] # Zero

\* C5: from the moment column 0 is initialised, through the march and
\* after it, V[j,0] = max(S_j - K, 0) for every j in 0..M.
C5_TerminalCondition ==
  pc \notin {"main", "setup", "alloc", "payoff"} =>
    \A j \in 0..m : v[<<j, 0>>] = FMax(FSub(s_grid[j], params.k), Zero)

C5_Witness ==
  /\ pc = "exit"
  /\ m >= 3
  /\ n >= 2
  /\ v[<<m - 1, 0>>] # Zero
  /\ v[<<m - 1, 0>>] # v[<<m - 1, 1>>]

FAbs(a) == IF Sgn(a) < 0 THEN FNeg(a) ELSE a
Dist(a) == FAbs(FSub(a, Target))

\* C6 (as stated): main calls the solver once, and the grid point it
\* prints is one nearest the target 1.10, with the price of that index
\* (stated for runs on inputs that pass validation).
C6_NearestSelected ==
  (pc = "exit" /\ ValidParams /\ ValidGrid) =>
    /\ calls = 1
    /\ printed # <<>> =>
         /\ \A j \in DOMAIN result[1].grid :
              FGe(Dist(result[1].grid[j]), Dist(result[1].grid[printed[1].pos]))
         /\ printed[1].price = result[1].prices[printed[1].pos]

\* C6 (amended): main calls the solver once; the grid point it prints is
\* the first one at or above the target 1.10 (smallest such index), with
\* the spot and the price of that index; it prints nothing when no grid
\* point reaches the target.
C6_FirstAtOrAbove ==
  /\ calls <= 1
  /\ pc = "exit" =>
       /\ calls = 1
       /\ LET s == result[1].grid
          IN IF \E j \in 0..m : FGe(s[j], Target)
             THEN /\ printed # <<>>
                  /\ printed[1].pos \in 0..m
                  /\ FGe(s[printed[1].pos], Target)
                  /\ \A j \in 0..(printed[1].pos - 1) : ~FGe(s[j], Target)
                  /\ printed[1].spot = s[printed[1].pos]
                  /\ printed[1].price = v[<<printed[1].pos, n>>]
             ELSE printed = <<>>

C6_Witness ==
  /\ pc = "exit"
  /\ printed # <<>>
  /\ printed[1].pos \in 1..(m - 1)
  /\ ~FGe(Dist(result[1].grid[printed[1].pos - 1]),
          Dist(result[1].grid[printed[1].pos]))

\* the history of a node at step s, summed from the oldest column on
HistorySum(node, s) ==
  LET RECURSIVE Sum(_)
      Sum(k) ==
        IF k >= s THEN FMul(b[s - 1], v[<<node, 0>>])
        ELSE FAdd(FMul(FSub(b[k - 1], b[k]), v[<<node, s - k>>]), Sum(k + 1))
  IN Sum(1)

\* C7: the right-hand side passed to the solve at step n has, for each
\* interior node j, entry j-1 equal to the history sum of j; only the last
\* entry (index M-2) is further decremented by upper_val * V_upper(t_n).
C7_RhsComposition ==
  pc = "solve" =>
    /\ DOMAIN rhs = 0..(m - 2)
    /\ \A node \in 1..(m - 1) :
         rhs[node - 1] =
           IF node = m - 1
           THEN FSub(HistorySum(node, step),
                     FMul(upper_val, VUpperAt(FMul(FromInt(step), dt))))
           ELSE HistorySum(node, step)

C7_Witness ==
  /\ pc = "solve"
  /\ step >= 3
  /\ m >= 3
  /\ \A j \in DOMAIN rhs : IsFinite(rhs[j]) /\ rhs[j] # Zero
  /\ FMul(upper_val, v_upper) # Zero
  /\ b[0] # b[1]
  /\ v[<<m - 1, 1>>] # v[<<m - 1, 2>>]

C8_Valid == ValidGrid

C8_Safe ==
  /\ \A k \in 1..Len(stepLog) : stepLog[k] = k
  /\ Len(stepLog) <= n
  /\ (C8_Valid /\ Returned) =>
       /\ outcome = "ok"
       /\ stepLog = [k \in 1..n |-> k]
       /\ DOMAIN result[1].grid = 0..m
       /\ result[1].prices = [j \in 0..m |-> v[<<j, n>>]]
       /\ \A c \in DOMAIN v : writes[c] = 1

C8_WriteInStep ==
  pc # "alloc" =>
    \A c \in DOMAIN writes :
      (writes'[c] # writes[c] /\ c[2] >= 1) =>
        /\ c[2] = step
        /\ stepLog # <<>>
        /\ stepLog[Len(stepLog)] = step
        /\ IF pc = "write" THEN c[1] \in 1..(m - 1) ELSE c[1] \in {0, m}

C8_Complete == pc = "exit" /\ outcome = "ok" /\ step = n + 1

\* C8: for M >= 2 and N >= 2 the march runs the steps 1, 2, ..., N in this
\* order, each once; a cell of column k >= 1 is written only during step k
\* (interior cells first, then the two boundary cells); the run always
\* reaches completion after step N, and the returned prices are column N,
\* index-aligned with the returned grid of length M+1.
C8_Progress ==
  /\ []C8_Safe
  /\ [][C8_WriteInStep]_vars
  /\ (C8_Valid ~> C8_Complete)

C8_Witness ==
  /\ pc = "exit"
  /\ C8_Valid
  /\ n >= 3
  /\ m >= 3
  /\ stepLog = <<1, 2, 3>>

StepsSolved == IF pc \in {"write", "boundary"} THEN step ELSE step - 1

C9_Counts ==
  /\ factorizations <= 1
  /\ step = 0 => (factorizations = 0 /\ lu = NoLu /\ solves = 0)
  /\ step >= 1 =>
       /\ factorizations = 1
       /\ a_matrix = TriDiag(m - 1, main_diag, upper_val, lower_val)
       /\ lu = Factorize(a_matrix, m - 1)
       /\ solves = StepsSolved
  /\ outcome = "ok" => solves = n

C9_Frozen == step >= 1 => UNCHANGED <<coeffs, operator>>

\* C9: the operator is factorized exactly once, before step 1; one solve
\* is performed per step, N in a completed run; from step 1 on the
\* operator's entries and its factorization never change, and the
\* factorization is that of the operator built from main_diag, upper_val
\* and lower_val.
C9_FactorizeOnce == []C9_Counts /\ [][C9_Frozen]_vars

C9_Witness ==
  /\ pc = "exit"
  /\ m >= 3
  /\ n >= 2
  /\ solves = n
  /\ factorizations = 1
  /\ \A j \in DOMAIN sol : IsFinite(sol[j]) /\ sol[j] # Zero

ColumnWritten(k) == \A j \in 0..m : writes[<<j, k>>] = 1

====
